---- MODULE Spec2Model ----
(***************************************************************************)
(* A model of github-kb.py: the URL parser, the README text extractor, the *)
(* index generator, the repository explorer, the remote search dispatcher  *)
(* and the local index query, with the top-level dispatcher main().        *)
(*                                                                         *)
(* Text is modelled character by character: a Python str is a sequence of  *)
(* one-character strings.  An Optional value is <<>> (None) or <<v>>.      *)
(***************************************************************************)
EXTENDS Integers, Sequences, FiniteSets, TLC

VARIABLES
    pc,        \* position of the running invocation
    args,      \* the arguments of the running invocation
    fs,        \* the part of the filesystem the invocation can see
    loc,       \* locals of the running function
    procs,     \* external commands handed to subprocess.run, in order
    out,       \* events printed to standard output, in order
    err,       \* events printed to standard error, in order
    raised,    \* <<>> or <<exception class>> of the exception in flight
    ret,       \* <<>> or <<value>> returned by the action
    exitCode   \* <<>> while running, <<n>> once the process has exited

vars == <<pc, args, fs, loc, procs, out, err, raised, ret, exitCode>>

None == <<>>
Some(v) == <<v>>
\* Python truthiness of an Optional[str] and of an Optional[int]: None, "" and 0
\* are false.
TruthyStr(opt) == opt # None /\ opt[1] # ""
TruthyInt(opt) == opt # None /\ opt[1] # 0

----------------------------------------------------------------------------
(* subprocess.run(..., check=True) as seen by run_command: the process     *)
(* exits 0, exits nonzero (CalledProcessError), or cannot be started at    *)
(* all (an OSError such as FileNotFoundError, which run_command does not   *)
(* catch).                                                                 *)
ProcOutcomes ==
    { [kind |-> "ok",      stdout |-> "OUT", stderr |-> ""],
      [kind |-> "nonzero", stdout |-> "",    stderr |-> "ERR"],
      [kind |-> "nonzero", stdout |-> "OUT", stderr |-> ""],
      [kind |-> "oserror", stdout |-> "",    stderr |-> ""] }

\* run_command: (success, output), or the exception that escapes it.
run_command(o) ==
    CASE o.kind = "ok"      -> [exc |-> None, success |-> TRUE,  output |-> o.stdout]
      [] o.kind = "nonzero" -> [exc |-> None, success |-> FALSE,
                                output |-> IF o.stderr # "" THEN o.stderr ELSE o.stdout]
      [] OTHER              -> [exc |-> Some("FileNotFoundError"), success |-> FALSE,
                                output |-> ""]

----------------------------------------------------------------------------
(* technical_search                                                        *)

SearchChoices == {"issues", "prs", "code", "repos"}
SearchTypes == SearchChoices \cup {"wiki"}

SearchArgs ==
    [ via          : {"main", "direct"},
      repo         : {"org/name"},
      query        : {"q"},
      search_type  : SearchTypes,
      state_filter : {None, Some("closed")},
      label        : {None, Some(""), Some("bug")},
      language     : {None, Some("python")},
      min_stars    : {None, Some(0), Some(5)},
      topic        : {None, Some("rl")} ]

Opt(flag, v) == IF TruthyStr(v) THEN <<flag, v[1]>> ELSE <<>>

\* A dispatcher whose last branch is taken for every remaining search type
\* instead of raising.
SearchCmdNoReject(a) ==
    CASE a.search_type \in {"issues", "prs"} ->
            Some(<<"gh", "search", a.search_type, "--repo", a.repo, a.query>>
                 \o Opt("--state", a.state_filter) \o Opt("--label", a.label))
      [] a.search_type = "code" ->
            Some(<<"gh", "search", "code", "--repo", a.repo, a.query>>
                 \o Opt("--language", a.language))
      [] OTHER ->
            Some(<<"gh", "search", "repos", a.query>>
                 \o Opt("--language", a.language)
                 \o (IF TruthyInt(a.min_stars)
                       THEN <<"stars:>=" \o ToString(a.min_stars[1])>> ELSE <<>>)
                 \o Opt("--topic", a.topic))

\* The command technical_search builds, before the limit is appended; None for
\* a search type it does not know.
SearchCmd(a) ==
    CASE a.search_type \in {"issues", "prs"} ->
            Some(<<"gh", "search", a.search_type, "--repo", a.repo, a.query>>
                 \o Opt("--state", a.state_filter) \o Opt("--label", a.label))
      [] a.search_type = "code" ->
            Some(<<"gh", "search", "code", "--repo", a.repo, a.query>>
                 \o Opt("--language", a.language))
      [] a.search_type = "repos" ->
            Some(<<"gh", "search", "repos", a.query>>
                 \o Opt("--language", a.language)
                 \o (IF TruthyInt(a.min_stars)
                       THEN <<"stars:>=" \o ToString(a.min_stars[1])>> ELSE <<>>)
                 \o Opt("--topic", a.topic))
      [] OTHER -> None

InitCommon ==
    /\ procs = <<>>
    /\ out = <<>>
    /\ err = <<>>
    /\ raised = None
    /\ ret = None
    /\ exitCode = None

InitSearch ==
    /\ InitCommon
    /\ args \in SearchArgs
    /\ pc = IF args.via = "main" THEN "main" ELSE "technical_search"
    /\ fs = "unused"
    /\ loc = [cmd |-> <<>>]

\* argparse rejects a --type outside its choices: usage error, exit status 2.
SearchArgparseReject ==
    /\ pc = "main"
    /\ args.search_type \notin SearchChoices
    /\ pc' = "exit"
    /\ err' = Append(err, "usage")
    /\ exitCode' = Some(2)
    /\ UNCHANGED <<args, fs, loc, procs, out, raised, ret>>

SearchDispatch ==
    /\ pc = "main"
    /\ args.search_type \in SearchChoices
    /\ pc' = "technical_search"
    /\ UNCHANGED <<args, fs, loc, procs, out, err, raised, ret, exitCode>>

\* technical_search up to the point where the command is complete.
SearchBuild ==
    /\ pc = "technical_search"
    /\ LET c == SearchCmd(args) IN
         IF c = None
           THEN /\ raised' = Some("ValueError")
                /\ pc' = "raised"
                /\ out' = Append(out, "Technical search")
                /\ UNCHANGED loc
           ELSE /\ loc' = [cmd |-> c[1] \o <<"--limit", "20">>]
                /\ pc' = "run_search"
                /\ out' = out \o <<"Technical search", "Running">>
                /\ UNCHANGED raised
    /\ UNCHANGED <<args, fs, procs, err, ret, exitCode>>

\* run_command(cmd) and everything technical_search does with its result.
SearchRun ==
    /\ pc = "run_search"
    /\ \E o \in ProcOutcomes :
         LET r == run_command(o) IN
           /\ procs' = Append(procs, [cmd |-> loc.cmd, outcome |-> o])
           /\ IF r.exc # None
                THEN /\ raised' = r.exc
                     /\ pc' = "raised"
                     /\ UNCHANGED <<out, ret>>
                ELSE IF ~r.success
                  THEN /\ out' = Append(out, "Search failed: " \o r.output)
                       /\ pc' = "returned"
                       /\ ret' = Some("None")
                       /\ UNCHANGED raised
                  ELSE /\ out' = out \o <<"Results", r.output, "Tips">>
                       /\ pc' = "returned"
                       /\ ret' = Some("None")
                       /\ UNCHANGED raised
    /\ UNCHANGED <<args, fs, loc, err, exitCode>>

\* main(): the action returned, the process ends with status 0.
MainReturn ==
    /\ pc = "returned"
    /\ args.via = "main"
    /\ pc' = "exit"
    /\ exitCode' = Some(0)
    /\ UNCHANGED <<args, fs, loc, procs, out, err, raised, ret>>

\* main(): except Exception: print to stderr, sys.exit(1).
MainCatch ==
    /\ pc = "raised"
    /\ args.via = "main"
    /\ pc' = "exit"
    /\ err' = Append(err, "Error")
    /\ exitCode' = Some(1)
    /\ UNCHANGED <<args, fs, loc, procs, out, raised, ret>>

NextSearch ==
    \/ SearchArgparseReject
    \/ SearchDispatch
    \/ SearchBuild
    \/ SearchRun
    \/ MainReturn
    \/ MainCatch

SpecSearch == InitSearch /\ [][NextSearch]_vars

Printed(e) == \E i \in 1..Len(out) : out[i] = e

(* C5: technical_search called with a search type outside {issues, prs,    *)
(* code, repos} raises ValueError and run_command has been called zero     *)
(* times, whatever the optional filters are.                               *)
C5_UnknownTypeRaisesBeforeAnyProcess ==
    args.search_type \notin SearchChoices =>
        /\ procs = <<>>
        /\ pc \notin {"run_search", "returned"}
        /\ (pc = "raised" => raised = Some("ValueError"))
        /\ (Printed("Technical search") => pc = "raised" /\ raised = Some("ValueError"))

C5_Witness ==
    /\ args.search_type = "wiki"
    /\ TruthyStr(args.label) /\ TruthyInt(args.min_stars)
    /\ Printed("Technical search")
    /\ pc = "raised"
    /\ raised = Some("ValueError")
    /\ procs = <<>>

(* C6: whenever the external search invocation fails, in whichever way,    *)
(* technical_search prints the captured error text and returns normally:   *)
(* no exception is in flight, no results or tips are printed, and the      *)
(* search subcommand ends with exit code 0.                                *)
C6_SearchFailureNeverFatal ==
    (procs # <<>> /\ procs[1].outcome.kind # "ok") =>
        /\ raised = None
        /\ pc \in {"returned", "exit"}
        /\ ~Printed("Results") /\ ~Printed("Tips")
        /\ \E i \in 1..Len(out) :
              out[i] \in {"Search failed: ERR", "Search failed: OUT"}
        /\ (exitCode # None => exitCode = Some(0))

----------------------------------------------------------------------------
(* str operations on sequences of characters                               *)

Take(s, n) == SubSeq(s, 1, IF n < Len(s) THEN n ELSE Len(s))
Drop(s, n) == SubSeq(s, n + 1, Len(s))
StartsWith(s, p) == Len(p) <= Len(s) /\ SubSeq(s, 1, Len(p)) = p
EndsWith(s, p) == Len(p) <= Len(s) /\ SubSeq(s, Len(s) - Len(p) + 1, Len(s)) = p
\* sub in s
Contains(s, sub) == \E i \in 0..(Len(s) - Len(sub)) : StartsWith(Drop(s, i), sub)

\* "".join of a sequence of strings
RECURSIVE Flatten(_)
Flatten(ss) == IF ss = <<>> THEN <<>> ELSE Head(ss) \o Flatten(Tail(ss))

\* s.replace(old, new): every non-overlapping occurrence, left to right
RECURSIVE Replace(_, _, _)
Replace(s, old, new) ==
    IF s = <<>> THEN <<>>
    ELSE IF StartsWith(s, old) THEN new \o Replace(Drop(s, Len(old)), old, new)
    ELSE <<Head(s)>> \o Replace(Tail(s), old, new)

----------------------------------------------------------------------------
(* extract_github_info                                                     *)

GithubCom == <<"g", "i", "t", "h", "u", "b", ".", "c", "o", "m">>
DotGit == <<".", "g", "i", "t">>

\* One pattern of extract_github_info tried at offset i of url (0-based):
\*   github\.com<sep>([^/]+)/([^/]+?)(\.git)?$
\* The text after the separator must be org "/" rest with no further "/";
\* group 2 is lazy, so it is the shortest non-empty prefix of rest that leaves
\* nothing or ".git" before the end.
PatternRest(url, i) == Drop(url, i + Len(GithubCom) + 1)
SlashAt(r) == CHOOSE j \in 1..Len(r) : r[j] = "/"
MatchesAt(url, sep, i) ==
    /\ StartsWith(Drop(url, i), GithubCom \o <<sep>>)
    /\ LET r == PatternRest(url, i) IN
         /\ Cardinality({j \in 1..Len(r) : r[j] = "/"}) = 1
         /\ 1 < SlashAt(r) /\ SlashAt(r) < Len(r)
Group1(url, i) ==
    LET r == PatternRest(url, i) IN Take(r, SlashAt(r) - 1)
Group2(url, i) ==
    LET r    == PatternRest(url, i)
        rest == Drop(r, SlashAt(r))
        k    == CHOOSE n \in 1..Len(rest) :
                   /\ Drop(rest, n) \in {<<>>, DotGit}
                   /\ \A m \in 1..(n - 1) : Drop(rest, m) \notin {<<>>, DotGit}
    IN Take(rest, k)

\* re.search(pattern, url): the leftmost offset at which the pattern matches.
Offsets(url, sep) == {i \in 0..Len(url) : MatchesAt(url, sep, i)}
Leftmost(S) == CHOOSE i \in S : \A j \in S : i <= j

\* The separators of the two patterns, in the order they are tried.
Patterns == <<"/", ":">>

\* name: match.group(2).replace(".git", "")
CleanName(g2) == Replace(g2, DotGit, <<>>)

\* extract_github_info: the first pattern that matches decides; ValueError when
\* none does.
extract_github_info(url) ==
    LET hit == {k \in 1..Len(Patterns) : Offsets(url, Patterns[k]) # {}} IN
      IF hit = {} THEN [exc |-> Some("ValueError"), info |-> None]
      ELSE LET k == Leftmost(hit)
               i == Leftmost(Offsets(url, Patterns[k]))
           IN [exc |-> None,
               info |-> Some([org |-> Group1(url, i), name |-> CleanName(Group2(url, i))])]

MaxUrlChunks == 4

UrlPrefixes ==
    { <<>>,
      <<"h", "t", "t", "p", "s", ":", "/", "/", "g", "i", "t", "h", "u", "b", ".", "c", "o", "m", "/">>,
      <<"g", "i", "t", "@", "g", "i", "t", "h", "u", "b", ".", "c", "o", "m", ":">>,
      <<"h", "t", "t", "p", "s", ":", "/", "/", "g", "i", "t", "l", "a", "b", ".", "c", "o", "m", "/">>,
      <<"g", "i", "t", "h", "u", "b", ".", "c", "o", "m", ":", "g", "i", "t", "h", "u", "b", ".", "c", "o", "m", "/">> }
UrlChunks ==
    { <<"o">>, <<"/">>, DotGit, <<"m", "y">>, <<"h", "u", "b", ".", "i", "o">> }
Urls ==
    { p \o Flatten(c) : p \in UrlPrefixes,
                        c \in UNION {[1..n -> UrlChunks] : n \in 0..MaxUrlChunks} }

InitParse ==
    /\ InitCommon
    /\ args \in [url : Urls]
    /\ pc = "extract_github_info"
    /\ fs = "unused"
    /\ loc = "unused"

ParseUrl ==
    /\ pc = "extract_github_info"
    /\ LET r == extract_github_info(args.url) IN
         /\ raised' = r.exc
         /\ ret' = r.info
         /\ pc' = IF r.exc = None THEN "returned" ELSE "raised"
    /\ UNCHANGED <<args, fs, loc, procs, out, err, exitCode>>

NextParse == ParseUrl

SpecParse == InitParse /\ [][NextParse]_vars

\* A string of a recognized form, and the organisation and repository name it
\* spells: ...github.com/org/name[.git] or ...github.com:org/name[.git].
Recognized(url) == \E k \in 1..Len(Patterns) : Offsets(url, Patterns[k]) # {}
SpelledSep(url) == IF Offsets(url, "/") # {} THEN "/" ELSE ":"
SpelledOrg(url) == Group1(url, Leftmost(Offsets(url, SpelledSep(url))))
SpelledRepo(url) ==
    LET r   == PatternRest(url, Leftmost(Offsets(url, SpelledSep(url))))
        seg == Drop(r, SlashAt(r))
    IN IF EndsWith(seg, DotGit) /\ Len(seg) > Len(DotGit)
         THEN Take(seg, Len(seg) - Len(DotGit)) ELSE seg

(* C7: for every string of a recognized form extract_github_info returns   *)
(* (org, name) where name is the repository name with only a trailing      *)
(* ".git" removed, any other ".git" inside the name being kept; for every  *)
(* other string it raises ValueError; it has no side effects.              *)
C7_ParseReturnsOrgAndNameStrippedOfTrailingGit ==
    pc # "extract_github_info" =>
        /\ procs = <<>> /\ out = <<>> /\ err = <<>>
        /\ IF Recognized(args.url)
             THEN /\ pc = "returned"
                  /\ ret # None
                  /\ ret[1].org = SpelledOrg(args.url)
                  /\ \/ ret[1].name = SpelledRepo(args.url)
                     \* a repository spelled exactly ".git" has no name to keep
                     \/ SpelledRepo(args.url) = DotGit /\ ret[1].name = <<>>
             ELSE pc = "raised" /\ raised = Some("ValueError")


----------------------------------------------------------------------------
(* Characters                                                              *)

UpperCase == <<"A", "B", "C", "D", "E", "F", "G", "H", "I", "J", "K", "L", "M", "N", "O", "P", "Q", "R", "S", "T", "U", "V", "W", "X", "Y", "Z">>
LowerCase == <<"a", "b", "c", "d", "e", "f", "g", "h", "i", "j", "k", "l", "m", "n", "o", "p", "q", "r", "s", "t", "u", "v", "w", "x", "y", "z">>
Digits == {"0", "1", "2", "3", "4", "5", "6", "7", "8", "9"}
IsUpper(c) == \E i \in 1..Len(UpperCase) : UpperCase[i] = c
IsLower(c) == \E i \in 1..Len(LowerCase) : LowerCase[i] = c
IsLetter(c) == IsUpper(c) \/ IsLower(c)
\* \w and \s of the re module, on the characters used here
IsWordChar(c) == IsLetter(c) \/ c \in Digits \/ c = "_"
IsSpace(c) == c \in {" ", "\n", "\t", "\r"}
LowerChar(c) ==
    IF IsUpper(c) THEN LowerCase[CHOOSE i \in 1..Len(UpperCase) : UpperCase[i] = c] ELSE c
\* s.lower()
Lower(s) == [i \in 1..Len(s) |-> LowerChar(s[i])]

\* The length of the longest prefix of s made of word characters.
RECURSIVE WordRunLen(_)
WordRunLen(s) == IF s # <<>> /\ IsWordChar(Head(s)) THEN 1 + WordRunLen(Tail(s)) ELSE 0

----------------------------------------------------------------------------
(* read_file_safe and the files it is applied to.  A file is absent, holds *)
(* text, holds bytes that are not UTF-8, or cannot be read at all (a       *)
(* directory of that name, no read permission): read_text then raises an   *)
(* OSError that is neither FileNotFoundError nor UnicodeDecodeError.       *)

Absent == [kind |-> "absent", text |-> <<>>]
Undecodable == [kind |-> "undecodable", text |-> <<>>]
Unreadable == [kind |-> "unreadable", text |-> <<>>]
TextFile(t) == [kind |-> "text", text |-> t]

\* path.exists()
Exists(f) == f.kind # "absent"

\* read_file_safe: the text, None for a missing or undecodable file, or the
\* exception it lets through.
read_file_safe(f) ==
    CASE f.kind = "text"                     -> [exc |-> None, content |-> Some(f.text)]
      [] f.kind \in {"absent", "undecodable"} -> [exc |-> None, content |-> None]
      [] OTHER                               -> [exc |-> Some("OSError"), content |-> None]

\* "if not content": None and "" are false.
NoContent(r) == r.content = None \/ r.content[1] = <<>>

----------------------------------------------------------------------------
(* ask_local_code                                                          *)

TopN == 5
MaxDocs == 6

\* re.findall(r"\w+", s): the maximal runs of word characters, in order.
RECURSIVE FindWords(_)
FindWords(s) ==
    IF s = <<>> THEN <<>>
    ELSE IF IsWordChar(Head(s))
      THEN LET n == WordRunLen(s) IN <<Take(s, n)>> \o FindWords(Drop(s, n))
      ELSE FindWords(Tail(s))

Keywords(query) == FindWords(Lower(query))

\* sum(1 for kw in keywords if kw in content.lower())
Score(keywords, content) ==
    Cardinality({k \in 1..Len(keywords) : Contains(Lower(content), keywords[k])})

\* A scan that keeps the documents scoring 0 as well.
ScanKeepAll(files, keywords, first) ==
    [i \in 1..Len(files) |->
        [score |-> IF files[i].kind = "text"
                     THEN Score(keywords, files[i].text) ELSE 0,
         file |-> first + i - 1]]

\* The loop over claude_files: the (score, file) pairs appended to results, in
\* the order of the files; files are numbered from `first`.
RECURSIVE Scan(_, _, _)
Scan(files, keywords, first) ==
    IF files = <<>> THEN <<>>
    ELSE LET r    == read_file_safe(Head(files))
             rest == Scan(Tail(files), keywords, first + 1)
         IN IF NoContent(r) THEN rest
            ELSE LET sc == Score(keywords, r.content[1]) IN
                   IF sc > 0 THEN <<[score |-> sc, file |-> first]>> \o rest ELSE rest

\* results.sort(key=lambda x: x[0], reverse=True): stable, highest score first.
RECURSIVE InsertByScore(_, _)
InsertByScore(sorted, x) ==
    IF sorted = <<>> THEN <<x>>
    ELSE IF Head(sorted).score >= x.score
      THEN <<Head(sorted)>> \o InsertByScore(Tail(sorted), x)
      ELSE <<x>> \o sorted
RECURSIVE SortByScore(_)
SortByScore(rs) ==
    IF rs = <<>> THEN <<>>
    ELSE InsertByScore(SortByScore(SubSeq(rs, 1, Len(rs) - 1)), rs[Len(rs)])

\* results[:5] without the slice.
TopResultsAll(sorted) == sorted
\* results[:5]
TopResults(sorted) == Take(sorted, TopN)

\* The index documents kb_dir.glob("**/CLAUDE.md") finds, in traversal order.
DocHigh == TextFile(<<"R", "L", " ", "E", "n", "v">>)
DocLow == TextFile(<<"U", "r", "l">>)
DocMiss == TextFile(<<"X">>)
DocEmpty == TextFile(<<>>)
PlainDocs == {DocHigh, DocLow, DocMiss}
OddDocs == {DocEmpty, Undecodable, Unreadable}
DocLists ==
    LET plain == UNION {[1..n -> PlainDocs] : n \in 0..MaxDocs} IN
      plain \cup {<<o>> \o p : o \in OddDocs, p \in plain}
            \cup {p \o <<Unreadable>> : p \in plain}

Queries == { <<"R", "L", " ", "e", "n", "v", "?">>, <<"r", "l", " ", "r", "l">>, <<"?", "?">> }

InitAsk ==
    /\ InitCommon
    /\ args \in [query : Queries]
    /\ fs \in {[kb_exists |-> FALSE, docs |-> <<>>]}
                \cup {[kb_exists |-> TRUE, docs |-> d] : d \in DocLists}
    /\ pc = "main"
    /\ loc = [reads |-> 0, results |-> <<>>, emitted |-> <<>>]

AskDispatch ==
    /\ pc = "main"
    /\ pc' = "ask_local_code"
    /\ UNCHANGED <<args, fs, loc, procs, out, err, raised, ret, exitCode>>

\* The position of the first file the scan cannot read, 0 when there is none.
FirstUnreadable(files) ==
    IF \E i \in 1..Len(files) : read_file_safe(files[i]).exc # None
      THEN Leftmost({i \in 1..Len(files) : read_file_safe(files[i]).exc # None})
      ELSE 0

\* ask_local_code, from entry to return or raise.
AskLocalCode ==
    /\ pc = "ask_local_code"
    /\ IF ~fs.kb_exists
         THEN /\ out' = out \o <<"Knowledge base not found", "hint">>
              /\ pc' = "returned" /\ ret' = Some("None")
              /\ UNCHANGED <<loc, raised>>
         ELSE IF fs.docs = <<>>
         THEN /\ out' = out \o <<"Searching", "KB Directory", "No indexed repos found", "hint">>
              /\ pc' = "returned" /\ ret' = Some("None")
              /\ UNCHANGED <<loc, raised>>
         ELSE IF FirstUnreadable(fs.docs) # 0
         THEN /\ out' = out \o <<"Searching", "KB Directory", "Found indexed repos">>
              /\ loc' = [loc EXCEPT !.reads = FirstUnreadable(fs.docs)]
              /\ raised' = read_file_safe(fs.docs[FirstUnreadable(fs.docs)]).exc
              /\ pc' = "raised"
              /\ UNCHANGED ret
         ELSE LET results == SortByScore(Scan(fs.docs, Keywords(args.query), 1)) IN
              /\ pc' = "returned" /\ ret' = Some("None")
              /\ UNCHANGED raised
              /\ IF results = <<>>
                   THEN /\ out' = out \o <<"Searching", "KB Directory", "Found indexed repos",
                                           "No matches found", "hint">>
                        /\ loc' = [loc EXCEPT !.reads = Len(fs.docs)]
                   ELSE /\ out' = out \o <<"Searching", "KB Directory", "Found indexed repos",
                                           "Top matches">>
                        /\ loc' = [reads |-> Len(fs.docs), results |-> results,
                                   emitted |-> TopResults(results)]
    /\ UNCHANGED <<args, fs, procs, err, exitCode>>

AskReturn ==
    /\ pc = "returned"
    /\ pc' = "exit"
    /\ exitCode' = Some(0)
    /\ UNCHANGED <<args, fs, loc, procs, out, err, raised, ret>>

AskCatch ==
    /\ pc = "raised"
    /\ pc' = "exit"
    /\ err' = Append(err, "Error")
    /\ exitCode' = Some(1)
    /\ UNCHANGED <<args, fs, loc, procs, out, raised, ret>>

NextAsk ==
    \/ AskDispatch
    \/ AskLocalCode
    \/ AskReturn
    \/ AskCatch

SpecAsk == InitAsk /\ [][NextAsk]_vars

\* The score the ranking is said to give a document: the number of query
\* tokens found somewhere in its lowercased text (0 for a document without text).
OccursIn(kw, text) ==
    \E i \in 1..Len(text) :
        i + Len(kw) - 1 <= Len(text) /\ SubSeq(text, i, i + Len(kw) - 1) = kw
TokenHits(f) ==
    IF f.kind # "text" THEN 0
    ELSE LET kws  == Keywords(args.query)
             text == Lower(f.text)
         IN Cardinality({k \in 1..Len(kws) : OccursIn(kws[k], text)})
Emitted(i) == \E j \in 1..Len(loc.emitted) : loc.emitted[j].file = i

(* C8: once ask_local_code has returned, every emitted result carries the  *)
(* number of query tokens occurring in its document's lowercased text,     *)
(* that number is above 0, at most 5 results are emitted, in non-increasing*)
(* score order, and no document left out scores strictly higher than an    *)
(* emitted one.                                                            *)
C8_RankingByTokenHits ==
    pc \in {"returned", "exit"} =>
        LET hits == [i \in 1..Len(fs.docs) |-> TokenHits(fs.docs[i])]
            e    == loc.emitted
        IN
        /\ Len(e) <= 5
        /\ \A j \in 1..Len(e) :
              /\ e[j].file \in 1..Len(fs.docs)
              /\ e[j].score = hits[e[j].file]
              /\ e[j].score > 0
              /\ \A k \in 1..(j - 1) : e[k].score >= e[j].score /\ e[k].file # e[j].file
        /\ \A i \in 1..Len(fs.docs) :
              ~Emitted(i) => \A j \in 1..Len(e) : hits[i] <= e[j].score

\* More than five documents match, with different scores, and one of them is
\* left out.
C8_Witness ==
    /\ pc = "returned"
    /\ Len(loc.emitted) = 5
    /\ loc.emitted[1].score = 2 /\ loc.emitted[5].score = 1
    /\ loc.emitted[1].file > loc.emitted[5].file
    /\ \E i \in 1..Len(fs.docs) : ~Emitted(i) /\ TokenHits(fs.docs[i]) = 1
    /\ \E i \in 1..Len(fs.docs) : TokenHits(fs.docs[i]) = 0

\* The three soft empty states: no knowledge-base root, no index document under
\* it, and a completed scan in which no document matched the query.
RootMissing == ~fs.kb_exists
NoDocuments == fs.kb_exists /\ fs.docs = <<>>
NoMatches ==
    /\ fs.kb_exists /\ fs.docs # <<>>
    /\ \A i \in 1..Len(fs.docs) : fs.docs[i].kind # "unreadable" /\ TokenHits(fs.docs[i]) = 0

----------------------------------------------------------------------------
(* Text operations used by the extractors                                  *)

\* The index of the first i >= from with s[i] = c, 0 when there is none.
IndexFrom(s, c, from) ==
    IF \E i \in from..Len(s) : s[i] = c
      THEN CHOOSE i \in from..Len(s) : s[i] = c /\ \A j \in from..(i - 1) : s[j] # c
      ELSE 0

\* The index at which the first occurrence of sub in s starts, 0 when none.
Find(s, sub) ==
    LET at == {i \in 1..(Len(s) - Len(sub) + 1) : SubSeq(s, i, i + Len(sub) - 1) = sub}
    IN IF at = {} THEN 0 ELSE Leftmost(at)

\* re.sub(r'<[^>]+>', ' ', s), scanning from index i: a "<" followed by at least
\* one character other than ">" and then the first ">" becomes one space.
TagStarts(s, i) ==
    {j \in i..Len(s) : s[j] = "<" /\ IndexFrom(s, ">", j + 1) > j + 1}
RECURSIVE StripTagsFrom(_, _)
StripTagsFrom(s, i) ==
    IF TagStarts(s, i) = {} THEN SubSeq(s, i, Len(s))
    ELSE LET j == Leftmost(TagStarts(s, i)) IN
           SubSeq(s, i, j - 1) \o <<" ">> \o StripTagsFrom(s, IndexFrom(s, ">", j + 1) + 1)
StripTags(s) == StripTagsFrom(s, 1)

\* html.unescape on the character references that occur in the texts used here.
Entities ==
    << [ref |-> <<"&", "a", "m", "p", ";">>, char |-> "&"],
       [ref |-> <<"&", "l", "t", ";">>,      char |-> "<"],
       [ref |-> <<"&", "g", "t", ";">>,      char |-> ">"] >>
EntityAt(s, i) ==
    {k \in 1..Len(Entities) :
        /\ i + Len(Entities[k].ref) - 1 <= Len(s)
        /\ SubSeq(s, i, i + Len(Entities[k].ref) - 1) = Entities[k].ref}
EntityStarts(s, i) == {j \in i..Len(s) : EntityAt(s, j) # {}}
RECURSIVE UnescapeFrom(_, _)
UnescapeFrom(s, i) ==
    IF EntityStarts(s, i) = {} THEN SubSeq(s, i, Len(s))
    ELSE LET j == Leftmost(EntityStarts(s, i))
             k == CHOOSE e \in EntityAt(s, j) : TRUE
         IN SubSeq(s, i, j - 1) \o <<Entities[k].char>>
                \o UnescapeFrom(s, j + Len(Entities[k].ref))
Unescape(s) == UnescapeFrom(s, 1)

\* re.sub(r'\s+', ' ', s): every run of whitespace becomes one space.
NormalizeSpace(s) ==
    LET keep == SelectSeq([i \in 1..Len(s) |-> i],
                          LAMBDA i : ~IsSpace(s[i]) \/ i = 1 \/ ~IsSpace(s[i - 1]))
    IN [k \in 1..Len(keep) |-> IF IsSpace(s[keep[k]]) THEN " " ELSE s[keep[k]]]

\* s.split(sep) for a one-character separator
Split(s, sep) ==
    LET cuts == SelectSeq([i \in 1..Len(s) |-> i], LAMBDA i : s[i] = sep)
        from(k) == IF k = 1 THEN 1 ELSE cuts[k - 1] + 1
        to(k)   == IF k = Len(cuts) + 1 THEN Len(s) ELSE cuts[k] - 1
    IN [k \in 1..(Len(cuts) + 1) |-> SubSeq(s, from(k), to(k))]

\* s.strip()
Strip(s) ==
    LET solid == {i \in 1..Len(s) : ~IsSpace(s[i])} IN
      IF solid = {} THEN <<>>
      ELSE SubSeq(s, Leftmost(solid), CHOOSE i \in solid : \A j \in solid : j <= i)

\* len(s.split()): the number of maximal runs of non-whitespace
WordCount(s) ==
    Cardinality({i \in 1..Len(s) : ~IsSpace(s[i]) /\ (i = 1 \/ IsSpace(s[i - 1]))})

\* sep.join(parts)
RECURSIVE Join(_, _)
Join(parts, sep) ==
    IF parts = <<>> THEN <<>>
    ELSE IF Len(parts) = 1 THEN parts[1]
    ELSE parts[1] \o sep \o Join(Tail(parts), sep)

----------------------------------------------------------------------------
(* extract_use_cases_from_readme                                           *)
(* Its only caller hands it the README after re.sub(r'\s+', ' ', ...), so  *)
(* the text holds no newline and no whitespace but single spaces; the      *)
(* patterns are modelled on such text, where [^\n]* and [^\n]+ run to the  *)
(* end of the text and every match therefore ends the search.              *)

MaxUseCases == 3
UseCaseLen == 100
MinUseCaseLen == 10

\* Case-insensitive occurrence of the (lowercase) literal w at index i of s.
LitAt(s, w, i) ==
    i >= 1 /\ i + Len(w) - 1 <= Len(s) /\ Lower(SubSeq(s, i, i + Len(w) - 1)) = w

\* (?:Use cases?|When to use|What|Why)
UseCaseHeads ==
    << <<"u", "s", "e", " ", "c", "a", "s", "e">>,
       <<"w", "h", "e", "n", " ", "t", "o", " ", "u", "s", "e">>,
       <<"w", "h", "a", "t">>,
       <<"w", "h", "y">> >>

\* (?:Use cases?|When to use|What|Why)[^\n]*:\s*([^\n]+)
\* [^\n]* is greedy: the colon used is the last one with text after it; it must
\* lie behind the heading word of the leftmost start that has such a colon.
ColonPattern(s) ==
    LET colons == {c \in 1..(Len(s) - 1) : s[c] = ":"}
        last   == CHOOSE c \in colons : \A d \in colons : d <= c
        heads  == {i \in 1..Len(s) : \E k \in 1..Len(UseCaseHeads) :
                      LitAt(s, UseCaseHeads[k], i) /\ i + Len(UseCaseHeads[k]) <= last}
    IN IF colons = {} \/ heads = {} THEN <<>>
       ELSE IF s[last + 1] = " " /\ last + 1 < Len(s)
         THEN <<Drop(s, last + 1)>>
         ELSE <<Drop(s, last)>>

\* (?:For|Used for|Best for|Designed for)\s+([^\n]+)
\* Every alternative ends in "for"; the match is decided by the first "for"
\* followed by a space and at least one more character.
ForWord == <<"f", "o", "r">>
ForPattern(s) ==
    LET at == {i \in 1..Len(s) : LitAt(s, ForWord, i) /\ i + 4 <= Len(s) /\ s[i + 3] = " "}
    IN IF at = {} THEN <<>> ELSE <<Drop(s, Leftmost(at) + 3)>>

\* (?:Features|Capabilities|Key)[^\n]*:\s*((?:[^\n]+\n){1,3})
\* Each repetition needs a newline, and the text holds none.
FeaturePattern(s) == <<>>

\* cleaned = match.strip()[:100]; kept if cleaned and len(cleaned) > 10
CleanMatches(ms) ==
    SelectSeq([i \in 1..Len(ms) |-> Take(Strip(ms[i]), UseCaseLen)],
              LAMBDA c : c # <<>> /\ Len(c) > MinUseCaseLen)

extract_use_cases_from_readme(content) ==
    Take(CleanMatches(ColonPattern(content)) \o CleanMatches(ForPattern(content))
            \o CleanMatches(FeaturePattern(content)),
         MaxUseCases)

----------------------------------------------------------------------------
(* extract_summary_from_readme                                             *)

MaxSummary == 400
MaxFallback == 150
MaxSummaryLines == 100
MaxDescriptionLines == 30
MinWords == 3

NoReadmeFound == <<"N", "o", " ", "R", "E", "A", "D", "M", "E", " ", "f", "o", "u", "n", "d">>
AddYourUseCase == <<"A", "d", "d", " ", "y", "o", "u", "r", " ", "u", "s", "e", " ", "c", "a", "s", "e", " ", "h", "e", "r", "e">>

Badge == <<"!", "[">>
ImgTag == <<"<", "i", "m", "g">>
PTag == <<"<", "p">>

\* The loop building cleaned_lines: badge and image lines are dropped, and so
\* are the empty lines before the first line kept.
CleanedLines(lines) ==
    LET st(i)  == Strip(lines[i])
        ok(i)  == ~Contains(st(i), Badge) /\ ~StartsWith(st(i), ImgTag) /\ ~StartsWith(st(i), PTag)
        keep   == SelectSeq([i \in 1..Len(lines) |-> i],
                            LAMBDA i : ok(i) /\ (st(i) # <<>>
                                                  \/ \E j \in 1..(i - 1) : ok(j) /\ st(j) # <<>>))
    IN [k \in 1..Len(keep) |-> st(keep[k])]

\* The loop building summary_lines, from line i on, with the lines collected so
\* far and the in_first_paragraph flag.
RECURSIVE SummaryWalk(_, _, _, _)
SummaryWalk(lines, i, acc, inpara) ==
    IF i > Len(lines) THEN acc
    ELSE LET line == Strip(lines[i]) IN
      IF StartsWith(line, <<"#">>) THEN SummaryWalk(lines, i + 1, acc, inpara)
      ELSE IF line = <<>> THEN (IF inpara THEN acc ELSE SummaryWalk(lines, i + 1, acc, inpara))
      ELSE IF Contains(line, Badge) \/ Contains(line, ImgTag)
        THEN SummaryWalk(lines, i + 1, acc, inpara)
      ELSE IF WordCount(line) < MinWords THEN SummaryWalk(lines, i + 1, acc, inpara)
      ELSE IF Len(Join(Append(acc, line), <<" ">>)) > MaxSummary THEN Append(acc, line)
      ELSE SummaryWalk(lines, i + 1, Append(acc, line), TRUE)

\* What extract_summary_from_readme makes of the README's text.
Summarize(text) ==
    LET content == NormalizeSpace(Unescape(StripTags(text)))
        cleaned == CleanedLines(Split(content, "\n"))
        summary == Take(Join(SummaryWalk(Take(cleaned, MaxSummaryLines), 1, <<>>, FALSE),
                             <<" ">>), MaxSummary)
        found   == extract_use_cases_from_readme(content)
    IN [summary     |-> summary,
        use_cases   |-> IF found # <<>> THEN found
                        ELSE IF summary # <<>> THEN <<Take(summary, MaxFallback)>>
                        ELSE <<AddYourUseCase>>,
        description |-> Join(Take(cleaned, MaxDescriptionLines), <<"\n">>)]

\* extract_summary_from_readme: the dictionary it returns, or the exception
\* read_file_safe lets through.
extract_summary_from_readme(f) ==
    LET r == read_file_safe(f) IN
      IF r.exc # None THEN [exc |-> r.exc, data |-> None]
      ELSE IF NoContent(r)
        THEN [exc |-> None,
              data |-> Some([summary |-> NoReadmeFound,
                             use_cases |-> <<AddYourUseCase>>,
                             description |-> <<>>])]
        ELSE [exc |-> None, data |-> Some(Summarize(r.content[1]))]

----------------------------------------------------------------------------
(* extract_tags_from_readme                                                *)

MaxTags == 10
MinTagLen == 2

TopicPrefix == <<"t", "o", "p", "i", "c", "-">>
IsTopicChar(c) == IsLetter(c) \/ c \in Digits \/ c = "-"

\* The end of the run of characters satisfying the test that starts at index
\* i of s (i - 1 when s[i] does not satisfy it).
LetterRunEnd(s, i) ==
    IF \E j \in i..Len(s) : ~IsLetter(s[j])
      THEN (CHOOSE j \in i..Len(s) : ~IsLetter(s[j]) /\ \A k \in i..(j - 1) : IsLetter(s[k])) - 1
      ELSE Len(s)
SpaceRunEnd(s, i) ==
    IF \E j \in i..Len(s) : ~IsSpace(s[j])
      THEN (CHOOSE j \in i..Len(s) : ~IsSpace(s[j]) /\ \A k \in i..(j - 1) : IsSpace(s[k])) - 1
      ELSE Len(s)
TopicRunEnd(s, i) ==
    IF \E j \in i..Len(s) : ~IsTopicChar(s[j])
      THEN (CHOOSE j \in i..Len(s) : ~IsTopicChar(s[j])
                                      /\ \A k \in i..(j - 1) : IsTopicChar(s[k])) - 1
      ELSE Len(s)

\* re.findall(r"topic-([a-z0-9-]+)", s, re.IGNORECASE), from index i on
TopicStarts(s, i) ==
    {j \in i..Len(s) : LitAt(s, TopicPrefix, j) /\ j + Len(TopicPrefix) <= Len(s)
                       /\ IsTopicChar(s[j + Len(TopicPrefix)])}
RECURSIVE TopicMatches(_, _)
TopicMatches(s, i) ==
    IF TopicStarts(s, i) = {} THEN <<>>
    ELSE LET j == Leftmost(TopicStarts(s, i)) + Len(TopicPrefix)
             e == TopicRunEnd(s, j)
         IN <<SubSeq(s, j, e)>> \o TopicMatches(s, e + 1)

\* A word of the capitalized-terms pattern: two letters or more.
WordAt(s, i) == i + 1 <= Len(s) /\ IsLetter(s[i]) /\ IsLetter(s[i + 1])
\* The end of the phrase ([A-Z][a-z]+(?:\s+[A-Z][a-z]+)*) whose current word
\* ends at e: it goes on while whitespace and another word follow.
RECURSIVE PhraseEnd(_, _)
PhraseEnd(s, e) ==
    LET w == SpaceRunEnd(s, e + 1) IN
      IF w > e /\ WordAt(s, w + 1) THEN PhraseEnd(s, LetterRunEnd(s, w + 1)) ELSE e
\* re.findall(r"([A-Z][a-z]+(?:\s+[A-Z][a-z]+)*)", s, re.IGNORECASE), from i on
RECURSIVE PhraseMatches(_, _)
PhraseMatches(s, i) ==
    LET starts == {j \in i..Len(s) : WordAt(s, j)} IN
      IF starts = {} THEN <<>>
      ELSE LET j == Leftmost(starts)
               e == PhraseEnd(s, LetterRunEnd(s, j))
           IN <<SubSeq(s, j, e)>> \o PhraseMatches(s, e + 1)

DomainKeywords ==
    << <<"m", "a", "c", "h", "i", "n", "e", " ", "l", "e", "a", "r", "n", "i", "n", "g">>,
       <<"d", "e", "e", "p", " ", "l", "e", "a", "r", "n", "i", "n", "g">>,
       <<"r", "e", "i", "n", "f", "o", "r", "c", "e", "m", "e", "n", "t", " ", "l", "e", "a", "r", "n", "i", "n", "g">>,
       <<"c", "o", "m", "p", "u", "t", "e", "r", " ", "v", "i", "s", "i", "o", "n">>,
       <<"n", "l", "p">>,
       <<"l", "l", "m">>,
       <<"t", "r", "a", "n", "s", "f", "o", "r", "m", "e", "r">>,
       <<"p", "y", "t", "o", "r", "c", "h">>,
       <<"t", "e", "n", "s", "o", "r", "f", "l", "o", "w">> >>
\* re.findall of the alternation of domain keywords, re.IGNORECASE, from i on
KeywordAt(s, j) == {k \in 1..Len(DomainKeywords) : LitAt(s, DomainKeywords[k], j)}
RECURSIVE KeywordMatches(_, _)
KeywordMatches(s, i) ==
    LET starts == {j \in i..Len(s) : KeywordAt(s, j) # {}} IN
      IF starts = {} THEN <<>>
      ELSE LET j == Leftmost(starts)
               k == Leftmost(KeywordAt(s, j))
           IN <<SubSeq(s, j, j + Len(DomainKeywords[k]) - 1)>>
                 \o KeywordMatches(s, j + Len(DomainKeywords[k]))

\* set(tags): the lowercased matches longer than two characters
TagSet(text) ==
    LET ms == TopicMatches(text, 1) \o PhraseMatches(text, 1) \o KeywordMatches(text, 1)
    IN {Lower(ms[i]) : i \in {k \in 1..Len(ms) : Len(ms[k]) > MinTagLen}}

\* list(set(tags))[:10]: the set is listed in an order of the interpreter's
\* choosing, so any sequence of distinct tags of the right length can result.
TagLists(tags) ==
    LET n == IF Cardinality(tags) < MaxTags THEN Cardinality(tags) ELSE MaxTags IN
      {t \in [1..n -> tags] : \A i, j \in 1..n : i # j => t[i] # t[j]}

\* extract_tags_from_readme: the lists it can return, or the exception
\* read_file_safe lets through.
extract_tags_from_readme(f) ==
    LET r == read_file_safe(f) IN
      IF r.exc # None THEN [exc |-> r.exc, tags |-> {}]
      ELSE IF NoContent(r) THEN [exc |-> None, tags |-> {<<>>}]
      ELSE [exc |-> None, tags |-> TagLists(TagSet(r.content[1]))]

----------------------------------------------------------------------------
(* extract_tech_stack                                                      *)

\* s.split(sep)[0]: the text before the first occurrence of sep
Before(s, sep) == IF Find(s, sep) = 0 THEN s ELSE SubSeq(s, 1, Find(s, sep) - 1)

IsVersionChar(c) == c \in {"=", "<", ">"}
\* The end of the run of characters other than = < > that starts at index i.
NameRunEnd(s, i) ==
    IF \E j \in i..Len(s) : IsVersionChar(s[j])
      THEN (CHOOSE j \in i..Len(s) : IsVersionChar(s[j])
                                      /\ \A k \in i..(j - 1) : ~IsVersionChar(s[k])) - 1
      ELSE Len(s)

\* requirements.txt: one name per line that is not blank and does not start
\* with "#", cut at the first "==", then ">=", then "<=".
RequirementsDeps(text) ==
    LET lines == Split(text, "\n")
        keep  == SelectSeq(lines, LAMBDA l : Strip(l) # <<>> /\ ~StartsWith(l, <<"#">>))
    IN [i \in 1..Len(keep) |->
          Before(Before(Before(Strip(keep[i]), <<"=", "=">>), <<">", "=">>), <<"<", "=">>)]

DependenciesKey == <<"d", "e", "p", "e", "n", "d", "e", "n", "c", "i", "e", "s", ":">>
DashName == <<"-", " ", "n", "a", "m", "e", ":">>

\* environment.yml: re.search(r"dependencies:\s*\n((?:[\s\S]*?))\n\s*- name:", s).
\* A block ends at a newline that is followed, after any whitespace, by "- name:".
EnvBlockEnds(s, from) ==
    {p \in from..Len(s) : s[p] = "\n"
                          /\ StartsWith(Drop(s, SpaceRunEnd(s, p + 1)), DashName)}
\* The newlines \s*\n can stop at after the key ending at index e; the greedy
\* \s* prefers the last one.
EnvBlockStarts(s, e) ==
    {n \in (e + 1)..SpaceRunEnd(s, e + 1) : s[n] = "\n" /\ EnvBlockEnds(s, n + 1) # {}}
EnvKeys(s) ==
    {i \in 1..Len(s) : StartsWith(Drop(s, i - 1), DependenciesKey)
                       /\ EnvBlockStarts(s, i + Len(DependenciesKey) - 1) # {}}
EnvBlock(s) ==
    IF EnvKeys(s) = {} THEN None
    ELSE LET i == Leftmost(EnvKeys(s))
             starts == EnvBlockStarts(s, i + Len(DependenciesKey) - 1)
             n == CHOOSE x \in starts : \A y \in starts : y <= x
         IN Some(SubSeq(s, n + 1, Leftmost(EnvBlockEnds(s, n + 1)) - 1))

\* re.match(r"^\s*-\s*([^=<>]+)", line), then strip: the name after the dash,
\* empty when there is none.
DashItem(line) ==
    LET d == SpaceRunEnd(line, 1) + 1
        b == SpaceRunEnd(line, d + 1) + 1
    IN IF d <= Len(line) /\ line[d] = "-" /\ b <= Len(line) /\ ~IsVersionChar(line[b])
         THEN Strip(SubSeq(line, b, NameRunEnd(line, b)))
         ELSE <<>>

PythonName == <<"p", "y", "t", "h", "o", "n">>

EnvDeps(text) ==
    IF EnvBlock(text) = None THEN <<>>
    ELSE LET lines == Split(EnvBlock(text)[1], "\n")
             items == [i \in 1..Len(lines) |-> DashItem(lines[i])]
         IN SelectSeq(items, LAMBDA d : d # <<>> /\ d # PythonName)

PoetryKey == <<"t", "o", "o", "l", ".", "p", "o", "e", "t", "r", "y", ".", "d", "e", "p", "e", "n", "d", "e", "n", "c", "i", "e", "s">>
ProjectKey == <<"p", "r", "o", "j", "e", "c", "t", ".", "d", "e", "p", "e", "n", "d", "e", "n", "c", "i", "e", "s">>

\* pyproject.toml:
\* re.search(r"(?:tool\.poetry\.dependencies|project\.dependencies)\s*=\s*\[((?:[\s\S]*?))\]", s)
\* Index of the "[" that opens the list for a key ending at index e, 0 if none.
ListOpen(s, e) ==
    LET eq == SpaceRunEnd(s, e + 1) + 1
        br == SpaceRunEnd(s, eq + 1) + 1
    IN IF eq <= Len(s) /\ s[eq] = "=" /\ br <= Len(s) /\ s[br] = "["
            /\ IndexFrom(s, "]", br + 1) # 0
         THEN br ELSE 0
KeyLenAt(s, i) ==
    IF StartsWith(Drop(s, i - 1), PoetryKey) THEN Len(PoetryKey)
    ELSE IF StartsWith(Drop(s, i - 1), ProjectKey) THEN Len(ProjectKey)
    ELSE 0
ListKeys(s) ==
    {i \in 1..Len(s) : KeyLenAt(s, i) > 0 /\ ListOpen(s, i + KeyLenAt(s, i) - 1) > 0}
ListBlock(s) ==
    IF ListKeys(s) = {} THEN None
    ELSE LET i  == Leftmost(ListKeys(s))
             br == ListOpen(s, i + KeyLenAt(s, i) - 1)
         IN Some(SubSeq(s, br + 1, IndexFrom(s, "]", br + 1) - 1))

\* The text between an opening quote at index q and the last such quote within
\* the run of characters other than = < > behind it; empty when there is none.
Quoted(line, q, quote) ==
    LET e      == NameRunEnd(line, q + 1)
        closes == {k \in (q + 2)..e : line[k] = quote}
    IN IF closes = {} THEN <<>>
       ELSE SubSeq(line, q + 1, (CHOOSE k \in closes : \A j \in closes : j <= k) - 1)
\* re.match(r'^\s*"([^=<>]+)"', line) or re.match(r"^'([^=<>]+)'", line)
QuotedItem(line) ==
    LET q == SpaceRunEnd(line, 1) + 1 IN
      IF q <= Len(line) /\ line[q] = "\"" /\ Quoted(line, q, "\"") # <<>>
        THEN Strip(Quoted(line, q, "\""))
      ELSE IF Len(line) >= 1 /\ line[1] = "'" THEN Strip(Quoted(line, 1, "'"))
      ELSE <<>>

PyprojectDeps(text) ==
    IF ListBlock(text) = None THEN <<>>
    ELSE LET lines == Split(ListBlock(text)[1], "\n")
             items == [i \in 1..Len(lines) |-> QuotedItem(lines[i])]
         IN SelectSeq(items, LAMBDA d : d # <<>> /\ Lower(d) # PythonName)

\* One manifest file of extract_tech_stack: consulted only if it exists, parsed
\* only if it has content.
ManifestText(f) ==
    IF ~Exists(f) THEN [exc |-> None, text |-> None]
    ELSE LET r == read_file_safe(f) IN
           [exc |-> r.exc, text |-> IF r.exc = None /\ ~NoContent(r) THEN r.content ELSE None]

\* extract_tech_stack on the three manifest files: deps["python"], or the
\* exception read_file_safe lets through.
extract_tech_stack(req, env, pyproject) ==
    LET r == ManifestText(req)
        e == ManifestText(env)
        p == ManifestText(pyproject)
    IN IF r.exc # None THEN [exc |-> r.exc, python |-> <<>>]
       ELSE IF e.exc # None THEN [exc |-> e.exc, python |-> <<>>]
       ELSE IF p.exc # None THEN [exc |-> p.exc, python |-> <<>>]
       ELSE [exc |-> None,
             python |-> (IF r.text = None THEN <<>> ELSE RequirementsDeps(r.text[1]))
                        \o (IF e.text = None THEN <<>> ELSE EnvDeps(e.text[1]))
                        \o (IF p.text = None THEN <<>> ELSE PyprojectDeps(p.text[1]))]

----------------------------------------------------------------------------
(* identify_key_files                                                      *)
(* A repository tree is the sequence of its entries in the order the       *)
(* filesystem lists them: [path, is_file].                                 *)

MaxKeyFiles == 10
KeyFilesShown == 5
DepsShown == 10
UseCasesShown == 3

BaseName(path) ==
    LET slashes == {i \in 1..Len(path) : path[i] = "/"} IN
      IF slashes = {} THEN path
      ELSE Drop(path, CHOOSE i \in slashes : \A j \in slashes : j <= i)
TopLevel(path) == \A i \in 1..Len(path) : path[i] # "/"

\* repo_path.glob(pattern) for the first three patterns: "**/*.py", "train.*",
\* "demo.*"
GlobPy(tree) ==
    SelectSeq(tree, LAMBDA e : Len(BaseName(e.path)) >= 3
                               /\ EndsWith(BaseName(e.path), <<".", "p", "y">>))
GlobTop(tree, stem) ==
    SelectSeq(tree, LAMBDA e : TopLevel(e.path) /\ StartsWith(e.path, stem \o <<".">>))
FilesOf(entries) ==
    LET fl == SelectSeq(entries, LAMBDA e : e.is_file) IN [i \in 1..Len(fl) |-> fl[i].path]

identify_key_files(tree) ==
    Take(FilesOf(GlobPy(tree))
           \o FilesOf(GlobTop(tree, <<"t", "r", "a", "i", "n">>))
           \o FilesOf(GlobTop(tree, <<"d", "e", "m", "o">>)),
         MaxKeyFiles)

----------------------------------------------------------------------------
(* generate_claude_md                                                      *)

T_Title ==
    <<" ", "-", " ", "A", "u", "t", "o", "-", "G", "e", "n", "e", "r", "a",
      "t", "e", "d", " ", "I", "n", "d", "e", "x", "\n", "\n", "#", "#",
      " ", "S", "u", "m", "m", "a", "r", "y", " ", "(", "A", "u", "t", "o",
      "-", "g", "e", "n", "e", "r", "a", "t", "e", "d", " ", "f", "r", "o",
      "m", " ", "R", "E", "A", "D", "M", "E", ")", "\n">>
T_UseCases ==
    <<"\n", "\n", "#", "#", " ", "U", "s", "e", " ", "C", "a", "s", "e", "s",
      " ", "(", "A", "u", "t", "o", "-", "e", "x", "t", "r", "a", "c", "t",
      "e", "d", ")", "\n">>
T_Stack ==
    <<"\n", "\n", "#", "#", " ", "T", "e", "c", "h", "n", "i", "c", "a", "l",
      " ", "S", "t", "a", "c", "k", " ", "(", "A", "u", "t", "o", "-", "e",
      "x", "t", "r", "a", "c", "t", "e", "d", ")", "\n">>
T_Deps ==
    <<"#", "#", "#", " ", "P", "y", "t", "h", "o", "n", " ", "D", "e", "p",
      "e", "n", "d", "e", "n", "c", "i", "e", "s", "\n">>
T_KeyFiles ==
    <<"\n", "#", "#", " ", "K", "e", "y", " ", "F", "i", "l", "e", "s", "\n">>
T_Tags ==
    <<"\n", "#", "#", " ", "T", "a", "g", "s", " ", "(", "A", "u", "t", "o",
      "-", "e", "x", "t", "r", "a", "c", "t", "e", "d", ")", "\n">>
T_Footer ==
    <<"\n", "\n", "-", "-", "-", "\n", "*", "G", "e", "n", "e", "r", "a", "t",
      "e", "d", " ", "b", "y", " ", "g", "i", "t", "h", "u", "b", "-", "k",
      "b", " ", "e", "x", "p", "l", "o", "r", "e", "_", "r", "e", "p", "o",
      "*", "\n", "*", "R", "E", "A", "D", "M", "E", " ", "a", "u", "t",
      "o", "m", "a", "t", "i", "c", "a", "l", "l", "y", " ", "a", "n", "a",
      "l", "y", "z", "e", "d", " ", "-", " ", "n", "o", " ", "m", "a", "n",
      "u", "a", "l", " ", "e", "d", "i", "t", "i", "n", "g", " ", "r", "e",
      "q", "u", "i", "r", "e", "d", "*", "\n">>
T_DefaultTags ==
    <<"p", "y", "t", "h", "o", "n", ",", " ", "g", "i", "t", "h", "u", "b",
      ",", " ", "[", "T", "O", "D", "O", ":", " ", "a", "d", "d", " ", "m",
      "o", "r", "e", " ", "t", "a", "g", "s", "]">>

\* The grave accent (U+0060) that encloses a key file's path; the character
\* cannot be written in a string of this language, so it has a name.
Backtick == "U+0060"

\* The f-string template filled with the extracted values.
Render(name, data, deps, key_files, tags) ==
    LET ucs   == Take(data.use_cases, UseCasesShown)
        top   == Take(deps, DepsShown)
        shown == Take(key_files, KeyFilesShown)
    IN <<"#", " ">> \o name \o T_Title \o data.summary \o T_UseCases
         \o Join([i \in 1..Len(ucs) |-> <<" ", " ", "-", " ">> \o ucs[i]], <<"\n">>)
         \o T_Stack
         \o (IF deps # <<>>
               THEN T_Deps \o Flatten([i \in 1..Len(top) |-> <<"-", " ">> \o top[i] \o <<"\n">>])
               ELSE <<>>)
         \o (IF key_files # <<>>
               THEN T_KeyFiles
                      \o Flatten([i \in 1..Len(shown) |->
                                     <<"-", " ", Backtick>> \o shown[i]
                                       \o <<Backtick, "\n">>])
               ELSE <<>>)
         \o T_Tags
         \o (IF tags # <<>> THEN Join(Take(tags, MaxTags), <<",", " ">>) ELSE T_DefaultTags)
         \o T_Footer

\* The documents a generation can write for a repository directory, or the
\* exception that ends it before the write: the extractors run in the order
\* summary, tech stack, tags; the tag order is the interpreter's.
Generated(repo, name) ==
    LET sm == extract_summary_from_readme(repo.readme)
        ts == extract_tech_stack(repo.requirements, repo.environment, repo.pyproject)
        tg == extract_tags_from_readme(repo.readme)
    IN IF sm.exc # None THEN [exc |-> sm.exc, docs |-> {}]
       ELSE IF ts.exc # None THEN [exc |-> ts.exc, docs |-> {}]
       ELSE IF tg.exc # None THEN [exc |-> tg.exc, docs |-> {}]
       ELSE [exc |-> None,
             docs |-> {Render(name, sm.data[1], ts.python, identify_key_files(repo.tree), t)
                          : t \in tg.tags}]

\* A generator that regenerates whether or not the document exists.
SkipsNever(repo, force) == FALSE
\* if claude_md_path.exists() and not force: return claude_md_path
Skips(repo, force) == Exists(repo.doc) /\ ~force

\* generate_claude_md(repo_path, info, force): every outcome it can have, as
\* [exc, wrote, doc]: the exception raised (None when it returns the path),
\* whether CLAUDE.md was written, and CLAUDE.md afterwards.
generate_claude_md(repo, name, force) ==
    IF Skips(repo, force)
      THEN {[exc |-> None, wrote |-> FALSE, doc |-> repo.doc]}
      ELSE LET g == Generated(repo, name) IN
             IF g.exc # None
               THEN {[exc |-> g.exc, wrote |-> FALSE, doc |-> repo.doc]}
               ELSE {[exc |-> None, wrote |-> TRUE, doc |-> TextFile(d)] : d \in g.docs}

----------------------------------------------------------------------------
(* The text extractors applied to the files of a repository directory      *)

MaxReadmeChunks == 2

ReadmeChunks ==
    { <<"#", " ", "K", "i", "t", "\n">>,
      <<"A", " ", "s", "m", "a", "l", "l", " ", "t", "o", "o", "l", "k", "i",
      "t", " ", "f", "o", "r", " ", "r", "o", "b", "o", "t", "s", ".", "\n">>,
      <<"U", "s", "e", " ", "c", "a", "s", "e", ":", " ", "t", "r", "a", "i",
      "n", "i", "n", "g", " ", "a", "g", "e", "n", "t", "s", " ", "i", "n",
      " ", "s", "i", "m", "u", "l", "a", "t", "i", "o", "n", "\n">>,
      <<"<", "i", "m", "g", " ", "s", "r", "c", "=", "x", ">", "\n">>,
      <<"p", "e", "r", "f", "e", "c", "t", " ", "f", "o", "r", " ", "q", "u",
      "i", "c", "k", " ", "t", "e", "s", "t", "s", "\n">>,
      <<"\n">> }
ReadmeTexts ==
    { Flatten(c) : c \in UNION { [1..k -> ReadmeChunks] : k \in 0..MaxReadmeChunks } }
ReadmeFiles == {Absent, Undecodable, Unreadable} \cup { TextFile(t) : t \in ReadmeTexts }

RequirementsText ==
    <<"n", "u", "m", "p", "y", ">", "=", "1", ".", "0", "\n", "t", "o", "r",
      "c", "h", "\n">>
EnvironmentText ==
    <<"d", "e", "p", "e", "n", "d", "e", "n", "c", "i", "e", "s", ":", "\n",
      " ", " ", "-", " ", "p", "y", "t", "h", "o", "n", "=", "3", ".", "9",
      "\n", " ", " ", "-", " ", "s", "c", "i", "p", "y", "\n", " ", " ",
      "-", " ", "n", "a", "m", "e", ":", " ", "e", "\n">>
PyprojectText ==
    <<"[", "p", "r", "o", "j", "e", "c", "t", "]", "\n", "p", "r", "o", "j",
      "e", "c", "t", ".", "d", "e", "p", "e", "n", "d", "e", "n", "c", "i",
      "e", "s", " ", "=", " ", "[", "\n", " ", "\"", "r", "e", "q", "u",
      "e", "s", "t", "s", "\"", ",", "\n", "]", "\n">>
ManifestFiles(text) == {Absent, Undecodable, Unreadable, TextFile(<<>>), TextFile(text)}

Extractors == {"extract_summary_from_readme", "extract_tags_from_readme", "extract_tech_stack"}

InitExtract ==
    /\ InitCommon
    /\ args \in [fn : Extractors]
    /\ fs \in IF args.fn = "extract_tech_stack"
                THEN [readme : {Absent}, requirements : ManifestFiles(RequirementsText),
                      environment : ManifestFiles(EnvironmentText),
                      pyproject : ManifestFiles(PyprojectText)]
                ELSE [readme : ReadmeFiles, requirements : {Absent},
                      environment : {Absent}, pyproject : {Absent}]
    /\ pc = "call"
    /\ loc = "unused"

ExtractSummary ==
    /\ pc = "call"
    /\ args.fn = "extract_summary_from_readme"
    /\ LET r == extract_summary_from_readme(fs.readme) IN
         /\ raised' = r.exc
         /\ ret' = r.data
         /\ pc' = IF r.exc = None THEN "returned" ELSE "raised"
    /\ UNCHANGED <<args, fs, loc, procs, out, err, exitCode>>

ExtractTags ==
    /\ pc = "call"
    /\ args.fn = "extract_tags_from_readme"
    /\ LET r == extract_tags_from_readme(fs.readme) IN
         IF r.exc # None
           THEN /\ raised' = r.exc
                /\ pc' = "raised"
                /\ UNCHANGED ret
           ELSE /\ \E t \in r.tags : ret' = Some(t)
                /\ pc' = "returned"
                /\ UNCHANGED raised
    /\ UNCHANGED <<args, fs, loc, procs, out, err, exitCode>>

ExtractTechStack ==
    /\ pc = "call"
    /\ args.fn = "extract_tech_stack"
    /\ LET r == extract_tech_stack(fs.requirements, fs.environment, fs.pyproject) IN
         /\ raised' = r.exc
         /\ ret' = IF r.exc = None THEN Some(r.python) ELSE None
         /\ pc' = IF r.exc = None THEN "returned" ELSE "raised"
    /\ UNCHANGED <<args, fs, loc, procs, out, err, exitCode>>

NextExtract ==
    \/ ExtractSummary
    \/ ExtractTags
    \/ ExtractTechStack

SpecExtract == InitExtract /\ [][NextExtract]_vars

\* A file that is missing, empty, or cannot be read (not decodable as UTF-8,
\* or not readable at all).
Blank(f) == f.kind \in {"absent", "undecodable", "unreadable"} \/ f = TextFile(<<>>)

(* C10: no extractor raises: a call of extract_summary_from_readme,         *)
(* extract_tags_from_readme or extract_tech_stack always returns; for a    *)
(* README that is absent, empty or cannot be read the summary is the fixed *)
(* placeholder and use_cases is the one-entry fallback list, tags are      *)
(* empty, and blank manifests give no dependencies; and every returned     *)
(* use_cases list has between 1 and 3 entries.                             *)
C10_ExtractorsNeverRaiseAndDefault ==
    pc # "call" =>
      /\ pc = "returned"
      /\ raised = None
      /\ args.fn = "extract_summary_from_readme" =>
           /\ Len(ret[1].use_cases) \in 1..MaxUseCases
           /\ Blank(fs.readme) =>
                /\ ret[1].summary = NoReadmeFound
                /\ ret[1].use_cases = <<AddYourUseCase>>
      /\ (args.fn = "extract_tags_from_readme" /\ Blank(fs.readme)) => ret = Some(<<>>)
      /\ (args.fn = "extract_tech_stack" /\ Blank(fs.requirements)
            /\ Blank(fs.environment) /\ Blank(fs.pyproject)) => ret = Some(<<>>)

\* The summary a line-by-line reading of the README gives: the lines are taken
\* one by one, image, badge and heading lines are dropped, and the lines of
\* at least three words are joined until the first blank line after the first
\* of them or until the joined text is longer than the limit, which cuts it.
ReadmeLines(text) == Split(text, "\n")
LineSummary(text) ==
    Take(Join(SummaryWalk(Take(CleanedLines(ReadmeLines(text)), MaxSummaryLines),
                          1, <<>>, FALSE),
              <<" ">>),
         MaxSummary)
\* A README of a heading line followed by one paragraph line of three words
\* or more.
HeadingThenParagraph(text) ==
    LET lines == ReadmeLines(text) IN
      /\ Len(lines) \in {2, 3}
      /\ StartsWith(lines[1], <<"#">>)
      /\ ~StartsWith(lines[2], <<"#">>)
      /\ ~Contains(lines[2], Badge)
      /\ ~Contains(lines[2], <<"<">>)
      /\ WordCount(lines[2]) >= MinWords
      /\ Len(lines) = 3 => lines[3] = <<>>

(* C11: extract_summary_from_readme reads the README line by line: heading *)
(* lines and image/badge lines are dropped one by one and the summary is   *)
(* the space-joined run of the other non-empty lines of at least 3 words,  *)
(* up to the first blank line after the first of them or until the joined  *)
(* text exceeds 400 characters, cut to 400; a README of a heading line and *)
(* a paragraph line of at least 3 words gives that paragraph; and no       *)
(* summary is longer than 400 characters.                                  *)
C11_SummaryIsLineByLine ==
    (pc = "returned" /\ args.fn = "extract_summary_from_readme"
       /\ fs.readme.kind = "text" /\ fs.readme.text # <<>>) =>
      /\ ret[1].summary = LineSummary(fs.readme.text)
      /\ HeadingThenParagraph(fs.readme.text) =>
           ret[1].summary = Strip(ReadmeLines(fs.readme.text)[2])
      /\ Len(ret[1].summary) <= MaxSummary

----------------------------------------------------------------------------
(* Repository directories                                                  *)

ReadmeA ==
    <<"a", " ", "t", "o", "o", "l", "k", "i", "t", " ", "f", "o", "r", " ",
      "r", "o", "b", "o", "t", " ", "l", "e", "a", "r", "n", "i", "n", "g",
      " ", "t", "a", "s", "k", "s", ".", "\n", "p", "e", "r", "f", "e",
      "c", "t", " ", "f", "o", "r", " ", "q", "u", "i", "c", "k", " ", "t",
      "e", "s", "t", "s", " ", "o", "n", " ", "r", "o", "b", "o", "t", "s">>
ReadmeB ==
    <<"#", " ", "O", "n", "l", "y", "\n">>
OldDoc ==
    <<"m", "y", " ", "n", "o", "t", "e", "s">>
TreeA ==
    << [path |-> <<"t", "r", "a", "i", "n", ".", "p", "y">>, is_file |-> TRUE],
       [path |-> <<"s", "r", "c", "/", "m", "o", "d", "e", "l", ".", "p", "y">>,
        is_file |-> TRUE],
       [path |-> <<"d", "e", "m", "o", ".", "d">>, is_file |-> FALSE],
       [path |-> <<"d", "e", "m", "o", ".", "s", "h">>, is_file |-> TRUE],
       [path |-> <<"d", "o", "c", "s", "/", "t", "r", "a", "i", "n", ".", "m", "d">>,
        is_file |-> TRUE] >>

\* The contents a repository directory can have, CLAUDE.md aside.
RepoContents ==
    [ readme       : {Absent, Unreadable, TextFile(ReadmeA), TextFile(ReadmeB)},
      requirements : {Absent, Unreadable, TextFile(RequirementsText)},
      environment  : {Absent, TextFile(EnvironmentText)},
      pyproject    : {Absent, TextFile(PyprojectText)},
      tree         : {<<>>, TreeA} ]
EmptyContents ==
    [readme |-> Absent, requirements |-> Absent, environment |-> Absent,
     pyproject |-> Absent, tree |-> <<>>]
Docs == {Absent, TextFile(OldDoc)}
\* A directory: its contents, its CLAUDE.md, and whether it has a .git entry.
Dir(c, doc, git) ==
    [readme |-> c.readme, requirements |-> c.requirements, environment |-> c.environment,
     pyproject |-> c.pyproject, tree |-> c.tree, doc |-> doc, git |-> git]

ClaudeMd ==
    <<"C", "L", "A", "U", "D", "E", ".", "m", "d">>
RepoName ==
    <<"r">>
OrgName ==
    <<"o">>
DEFAULT_KB_DIR ==
    <<<<"g", "i", "t", "h", "u", "b", "-", "k", "b">>>>

----------------------------------------------------------------------------
(* generate_claude_md called directly, any number of times, while the      *)
(* README and the manifests change between the calls                       *)

MaxCalls == 2

InitGenerate ==
    /\ InitCommon
    /\ args = [repo_path |-> DEFAULT_KB_DIR \o <<OrgName, RepoName>>,
               info |-> [org |-> OrgName, name |-> RepoName]]
    /\ fs \in { Dir(c, d, TRUE) : c \in RepoContents, d \in Docs }
    /\ pc = "idle"
    /\ loc = [calls |-> 0, force |-> FALSE, before |-> Absent, wrote |-> FALSE,
              edited |-> FALSE]

GeneratePrints(o) ==
    IF o.exc # None THEN <<"Analyzing README">>
    ELSE IF o.wrote THEN <<"Analyzing README", "Created", "Auto-extracted">>
    ELSE <<"CLAUDE.md already exists, skipping">>

\* One call generate_claude_md(repo_path, info, force).
GenerateClaudeMd ==
    /\ pc = "idle"
    /\ loc.calls < MaxCalls
    /\ \E force \in BOOLEAN :
         \E o \in generate_claude_md(fs, args.info.name, force) :
           /\ fs' = [fs EXCEPT !.doc = o.doc]
           /\ loc' = [loc EXCEPT !.calls = @ + 1, !.force = force, !.before = fs.doc,
                                 !.wrote = o.wrote]
           /\ out' = GeneratePrints(o)
           /\ raised' = o.exc
           /\ ret' = IF o.exc = None THEN Some(args.repo_path \o <<ClaudeMd>>) ELSE None
           /\ pc' = IF o.exc = None THEN "returned" ELSE "raised"
    /\ UNCHANGED <<args, procs, err, exitCode>>

\* The caller goes on after a call, whether it returned or raised.
CallerContinues ==
    /\ pc \in {"returned", "raised"}
    /\ pc' = "idle"
    /\ raised' = None
    /\ ret' = None
    /\ out' = <<>>
    /\ UNCHANGED <<args, fs, loc, procs, err, exitCode>>

\* Between two calls somebody edits README.md.
EditReadme ==
    /\ pc = "idle"
    /\ loc.calls > 0
    /\ \E r \in {Absent, TextFile(ReadmeA), TextFile(ReadmeB)} \ {fs.readme} :
         fs' = [fs EXCEPT !.readme = r]
    /\ loc' = [loc EXCEPT !.edited = TRUE]
    /\ UNCHANGED <<pc, args, procs, out, err, raised, ret, exitCode>>

\* Between two calls somebody edits requirements.txt.
EditManifest ==
    /\ pc = "idle"
    /\ loc.calls > 0
    /\ \E r \in {Absent, TextFile(RequirementsText)} \ {fs.requirements} :
         fs' = [fs EXCEPT !.requirements = r]
    /\ loc' = [loc EXCEPT !.edited = TRUE]
    /\ UNCHANGED <<pc, args, procs, out, err, raised, ret, exitCode>>

NextGenerate ==
    \/ GenerateClaudeMd
    \/ CallerContinues
    \/ EditReadme
    \/ EditManifest

SpecGenerate == InitGenerate /\ [][NextGenerate]_vars

CallDone == pc \in {"returned", "raised"}
\* The documents the template gives for the directory as it is now.
RenderedNow == { TextFile(d) : d \in Generated(fs, args.info.name).docs }

(* C1: a call of generate_claude_md with force=false on a directory whose  *)
(* CLAUDE.md exists writes nothing, leaves CLAUDE.md exactly as it was     *)
(* before the call, whatever has happened to the README and the manifests  *)
(* since, and returns the path of CLAUDE.md; and a call writes the         *)
(* document only if it was absent or force=true.                           *)
C1_NoForceKeepsExistingDocument ==
    CallDone =>
      /\ (~loc.force /\ Exists(loc.before)) =>
           /\ pc = "returned"
           /\ ~loc.wrote
           /\ fs.doc = loc.before
           /\ ret = Some(args.repo_path \o <<ClaudeMd>>)
      /\ loc.wrote => (~Exists(loc.before) \/ loc.force)
      /\ ~loc.wrote => fs.doc = loc.before

\* The second call, without force, finds a document generated by the first
\* and a README edited since, so that the document is no longer what the
\* template would give.
C1_Witness ==
    /\ pc = "returned"
    /\ loc.calls = 2
    /\ ~loc.force
    /\ loc.edited
    /\ loc.before.kind = "text"
    /\ loc.before.text # OldDoc
    /\ Generated(fs, args.info.name).exc = None
    /\ fs.doc \notin RenderedNow
    /\ fs.doc = loc.before

(* C2: after a call of generate_claude_md with force=true, whatever        *)
(* CLAUDE.md was before (absent, generated earlier, arbitrary text), the   *)
(* call has returned and CLAUDE.md is, as a whole, the template rendered   *)
(* from the README, the manifests and the key files as they are now.       *)
C2_ForceAlwaysOverwrites ==
    (CallDone /\ loc.force) =>
      /\ pc = "returned"
      /\ loc.wrote
      /\ fs.doc \in RenderedNow

----------------------------------------------------------------------------
(* explore_repo, called by main                                            *)

ExploreUrls ==
    { <<"h", "t", "t", "p", "s", ":", "/", "/", "g", "i", "t", "h", "u", "b",
      ".", "c", "o", "m", "/", "o", "/", "r", ".", "g", "i", "t">>,
      <<"g", "i", "t", "@", "g", "i", "t", "h", "u", "b", ".", "c", "o", "m",
      ":", "o", "/", "r">>,
      <<"f", "t", "p", ":", "/", "/", "x", "/", "y">> }
TargetDirs ==
    {None, Some(<<<<"/", "t", "m", "p", "/", "k", "b">>>>)}

\* The directory the clone lands in: DEFAULT_KB_DIR/org/name, or
\* target_dir/name when a target directory is given.
TargetDir(target_dir, info) ==
    IF target_dir = None THEN DEFAULT_KB_DIR \o <<info.org, info.name>>
    ELSE target_dir[1] \o <<info.name>>

\* git clone into a directory: it refuses a directory that is not empty.
CloneOutcomes(dir) ==
    IF Exists(dir.doc) THEN {o \in ProcOutcomes : o.kind # "ok"} ELSE ProcOutcomes
\* What a successful clone leaves in the target directory; the repository
\* may ship its own CLAUDE.md.
Cloned == { Dir(c, d, TRUE) : c \in RepoContents, d \in Docs }

\* An explore_repo that goes on whatever the clone command reported.
CloneFailedNever(r) == FALSE
\* if not success: raise RuntimeError(f"Clone failed: {output}")
CloneFailed(r) == ~r.success

InitExplore ==
    /\ InitCommon
    /\ args \in [url : ExploreUrls, target_dir : TargetDirs, force : BOOLEAN]
    /\ fs \in { Dir(c, d, TRUE) : c \in RepoContents, d \in Docs }
                \cup { Dir(EmptyContents, d, FALSE) : d \in Docs }
    /\ pc = "main"
    /\ loc = [info |-> None, target |-> <<>>, marker0 |-> fs.git, doc0 |-> fs.doc,
              gen_calls |-> <<>>, writes |-> 0, message |-> ""]

ExploreDispatch ==
    /\ pc = "main"
    /\ pc' = "explore_repo"
    /\ UNCHANGED <<args, fs, loc, procs, out, err, raised, ret, exitCode>>

\* explore_repo up to the clone: parse the URL, choose the target directory,
\* create its parent.
ExploreResolve ==
    /\ pc = "explore_repo"
    /\ LET r == extract_github_info(args.url) IN
         IF r.exc # None
           THEN /\ raised' = r.exc
                /\ pc' = "raised"
                /\ loc' = [loc EXCEPT !.message = "Invalid GitHub URL"]
                /\ UNCHANGED out
           ELSE /\ loc' = [loc EXCEPT !.info = r.info,
                                      !.target = TargetDir(args.target_dir, r.info[1])]
                /\ out' = out \o <<"Exploring", "Target">>
                /\ pc' = "clone"
                /\ UNCHANGED raised
    /\ UNCHANGED <<args, fs, procs, err, ret, exitCode>>

\* The clone step: skipped when target_dir/.git exists.
ExploreClone ==
    /\ pc = "clone"
    /\ IF fs.git
         THEN /\ out' = Append(out, "Repo already exists, skipping clone")
              /\ pc' = "generate"
              /\ UNCHANGED <<fs, loc, procs, raised>>
         ELSE \E o \in CloneOutcomes(fs) :
                LET r == run_command(o) IN
                  /\ procs' = Append(procs, [cmd |-> <<"git", "clone", args.url, loc.target>>,
                                             outcome |-> o])
                  /\ IF r.exc # None
                       THEN /\ raised' = r.exc
                            /\ pc' = "raised"
                            /\ loc' = [loc EXCEPT !.message = "No such file or directory"]
                            /\ out' = Append(out, "Cloning")
                            /\ UNCHANGED fs
                       ELSE IF CloneFailed(r)
                         THEN /\ raised' = Some("RuntimeError")
                              /\ pc' = "raised"
                              /\ loc' = [loc EXCEPT !.message = "Clone failed: " \o r.output]
                              /\ out' = Append(out, "Cloning")
                              /\ UNCHANGED fs
                         ELSE /\ fs' \in Cloned
                              /\ out' = out \o <<"Cloning", "Cloned successfully">>
                              /\ pc' = "generate"
                              /\ UNCHANGED <<loc, raised>>
    /\ UNCHANGED <<args, err, ret, exitCode>>

\* generate_claude_md(target_dir, info, force=force) and the rest of
\* explore_repo.
ExploreGenerate ==
    /\ pc = "generate"
    /\ \E o \in generate_claude_md(fs, loc.info[1].name, args.force) :
         /\ fs' = [fs EXCEPT !.doc = o.doc]
         /\ loc' = [loc EXCEPT !.gen_calls = Append(@, args.force),
                               !.writes = IF o.wrote THEN @ + 1 ELSE @,
                               !.message = IF o.exc # None THEN "Is a directory" ELSE @]
         /\ raised' = o.exc
         /\ IF o.exc # None
              THEN /\ out' = out \o GeneratePrints(o)
                   /\ pc' = "raised"
                   /\ UNCHANGED ret
              ELSE /\ out' = out \o GeneratePrints(o) \o <<"Explore complete", "Index", "ready">>
                   /\ ret' = Some(loc.target)
                   /\ pc' = "returned"
    /\ UNCHANGED <<args, procs, err, exitCode>>

\* main(): explore_repo returned, the process ends with status 0.
ExploreReturn ==
    /\ pc = "returned"
    /\ pc' = "exit"
    /\ exitCode' = Some(0)
    /\ UNCHANGED <<args, fs, loc, procs, out, err, raised, ret>>

\* main(): except Exception as e: print(f"Error: {e}", file=sys.stderr);
\* sys.exit(1).
ExploreCatch ==
    /\ pc = "raised"
    /\ pc' = "exit"
    /\ err' = Append(err, "Error: " \o loc.message)
    /\ exitCode' = Some(1)
    /\ UNCHANGED <<args, fs, loc, procs, out, raised, ret>>

NextExplore ==
    \/ ExploreDispatch
    \/ ExploreResolve
    \/ ExploreClone
    \/ ExploreGenerate
    \/ ExploreReturn
    \/ ExploreCatch

SpecExplore == InitExplore /\ [][NextExplore]_vars

IsClone(p) == p.cmd[1] = "git" /\ p.cmd[2] = "clone"
CloneRan == \E i \in 1..Len(procs) : IsClone(procs[i])
CloneSucceeded == \E i \in 1..Len(procs) : IsClone(procs[i]) /\ procs[i].outcome.kind = "ok"
CloneExitedNonzero ==
    \E i \in 1..Len(procs) : IsClone(procs[i]) /\ procs[i].outcome.kind = "nonzero"
ExploreDone == pc \in {"returned", "raised", "exit"}

(* C3: in explore_repo the clone command is run if and only if the target  *)
(* directory has no .git entry, with a .git entry no command is run at     *)
(* all, and both when the clone was skipped and when it succeeded          *)
(* generate_claude_md is then called exactly once, with the caller's force *)
(* flag, and explore_repo returns the target directory.                    *)
C3_CloneIffNoMarkerThenGenerateOnce ==
    /\ loc.marker0 => procs = <<>>
    /\ Len(loc.gen_calls) <= 1
    /\ (ExploreDone /\ loc.info # None) =>
         /\ CloneRan <=> ~loc.marker0
         /\ (loc.marker0 \/ CloneSucceeded) =>
              /\ loc.gen_calls = <<args.force>>
              /\ ret = Some(loc.target)

(* C4: when the clone command of explore_repo exits nonzero, explore_repo  *)
(* raises RuntimeError with a message that carries the command's error     *)
(* output, generate_claude_md is not called and CLAUDE.md of the target is *)
(* not written, and main prints the message to standard error and exits    *)
(* with status 1.                                                          *)
C4_CloneFailureIsFatal ==
    CloneExitedNonzero =>
      /\ raised = Some("RuntimeError")
      /\ \A i \in 1..Len(procs) :
           procs[i].outcome.stderr # "" =>
             loc.message = "Clone failed: " \o procs[i].outcome.stderr
      /\ loc.gen_calls = <<>>
      /\ loc.writes = 0
      /\ fs.doc = loc.doc0
      /\ ret = None
      /\ pc \in {"raised", "exit"}
      /\ pc = "exit" => (exitCode = Some(1) /\ err = <<"Error: " \o loc.message>>)

C4_Witness ==
    /\ CloneExitedNonzero
    /\ pc = "exit"
    /\ exitCode = Some(1)
    /\ err = <<"Error: Clone failed: ERR">>

====
